---- MODULE Spec2Model ----
(***************************************************************************)
(* Model of src/src/extension.ts: the three functions that read and        *)
(* rewrite ~/.ssh/config (parseGitHubSSHIdentities, isActiveIdentity,      *)
(* setActiveGitHubIdentity) and the SSHConnectionProvider that merges the  *)
(* managed identity list with the scanned one and persists the managed     *)
(* list to ~/.vscode-ssh-manager.json.                                     *)
(*                                                                         *)
(* A string is a sequence of tokens.  A token is either SP, one white      *)
(* space character (U+0020), or a word: a maximal run of non-white-space   *)
(* characters, written as a TLA+ string.  No string of the model has two   *)
(* adjacent words, so split(/\s+/) of a trimmed string is its words.       *)
(* A file is the sequence of lines that split(/\r?\n/) yields, with the    *)
(* line-ending style it is stored with.                                    *)
(***************************************************************************)
EXTENDS Integers, Sequences, FiniteSets, TLC

VARIABLES
    sshConfig,     \* ~/.ssh/config: [exists, lines, eol]
    connections,   \* SSHConnectionProvider.connections (the in-memory managed list)
    store,         \* ~/.vscode-ssh-manager.json: [exists, corrupt, data]
    gitConfig,     \* <workspace>/.git/config: [exists, hasUser, name, email]
    lastSet,       \* key of the latest setActiveGitHubIdentity that wrote the file
    call           \* the latest operation: its name, arguments and result

vars == <<sshConfig, connections, store, gitConfig, lastSet, call>>

----------------------------------------------------------------------------
(* Bounds *)

MaxLines == 3      \* lines of an initial ~/.ssh/config
MaxConns == 2      \* records of the managed list

----------------------------------------------------------------------------
(* Strings *)

SP == " "

Null == <<"<null>">>
Undefined == <<"<undefined>">>

GitHub == <<"github.com">>
DefaultPort == 22

\* String.prototype.toLowerCase, per token
LowerTok(t) ==
    CASE t \in {"Host", "HOST", "host"} -> "host"
      [] t \in {"IdentityFile", "identityfile"} -> "identityfile"
      [] t = "IdentitiesOnly" -> "identitiesonly"
      [] t = "HostName" -> "hostname"
      [] t = "~/.ssh/ID_WORK" -> "~/.ssh/id_work"
      [] OTHER -> t

toLowerCase(s) == [i \in 1..Len(s) |-> LowerTok(s[i])]

RECURSIVE TrimStart(_)
TrimStart(s) == IF s # <<>> /\ Head(s) = SP THEN TrimStart(Tail(s)) ELSE s

RECURSIVE TrimEnd(_)
TrimEnd(s) ==
    IF s # <<>> /\ s[Len(s)] = SP THEN TrimEnd(SubSeq(s, 1, Len(s) - 1)) ELSE s

\* String.prototype.trim
trim(s) == TrimEnd(TrimStart(s))

\* s.startsWith('host '): the word "host" followed by a space
startsWithHostSp(s) == Len(s) >= 2 /\ s[1] = "host" /\ s[2] = SP

\* s.startsWith('identityfile'): the first word begins with these characters
startsWithIdentityfile(s) == Len(s) >= 1 /\ s[1] \in {"identityfile"}

\* trimmed.split(/\s+/): the words of a trimmed string ([""] for the empty one)
splitWs(s) == IF s = <<>> THEN <<"">> ELSE SelectSeq(s, LAMBDA t : t # SP)

\* parts[1]: the second element, undefined when there is none
second(parts) == IF Len(parts) >= 2 THEN <<parts[2]>> ELSE Undefined

\* path.basename
BasenameTok(t) ==
    CASE t = "~/.ssh/id_work" -> "id_work"
      [] t = "~/.ssh/ID_WORK" -> "ID_WORK"
      [] t = "~/.ssh/id_home" -> "id_home"
      [] OTHER -> t

basename(s) == IF s = <<>> THEN <<>> ELSE <<BasenameTok(s[Len(s)])>>

\* JavaScript truthiness of a string | null | undefined
Truthy(v) == v \notin {Null, Undefined, <<>>}

----------------------------------------------------------------------------
(* parseGitHubSSHIdentities *)

Discovered(identityFile) ==
    [name |-> basename(identityFile), host |-> GitHub, user |-> "git",
     port |-> DefaultPort, keyFile |-> identityFile]

\* one iteration of the for loop, on the state (currentHost, identityFile, connections)
ParseStep(st, line) ==
    LET trimmed == trim(line)
        lower == toLowerCase(trimmed)
    IN  IF startsWithHostSp(lower)
        THEN [currentHost |-> second(splitWs(trimmed)),
              identityFile |-> Null,
              connections |->
                  IF st.currentHost = GitHub /\ Truthy(st.identityFile)
                  THEN Append(st.connections, Discovered(st.identityFile))
                  ELSE st.connections]
        ELSE IF startsWithIdentityfile(lower) /\ st.currentHost = GitHub
             THEN [st EXCEPT !.identityFile = second(splitWs(trimmed))]
             ELSE st

RECURSIVE ParseLoop(_, _)
ParseLoop(st, lines) ==
    IF lines = <<>> THEN st ELSE ParseLoop(ParseStep(st, Head(lines)), Tail(lines))

\* a scan that ends at the last line without the push after the loop
ParseFlush_Dropped(st) == st.connections

\* the push after the loop: "Add last entry if file ends with github.com"
ParseFlush(st) ==
    IF st.currentHost = GitHub /\ Truthy(st.identityFile)
    THEN Append(st.connections, Discovered(st.identityFile))
    ELSE st.connections

parseGitHubSSHIdentities(cfg) ==
    IF ~cfg.exists THEN <<>>
    ELSE ParseFlush(ParseLoop([currentHost |-> Null, identityFile |-> Null,
                               connections |-> <<>>], cfg.lines))

----------------------------------------------------------------------------
(* isActiveIdentity *)

\* a comparison that folds case
KeyEquals_CaseFold(activeKey, keyFile) == toLowerCase(activeKey) = toLowerCase(keyFile)

\* activeKey === connection.keyFile
KeyEquals(activeKey, keyFile) == activeKey = keyFile

\* inGitHubHost after the first if of the loop body
IsActiveInHost(inGitHubHost, trimmed) ==
    IF startsWithHostSp(toLowerCase(trimmed))
    THEN second(splitWs(trimmed)) = GitHub
    ELSE inGitHubHost

RECURSIVE IsActiveLoop(_, _, _)
IsActiveLoop(lines, inGitHubHost, keyFile) ==
    IF lines = <<>> THEN FALSE
    ELSE LET trimmed == trim(Head(lines))
             inGH == IsActiveInHost(inGitHubHost, trimmed)
         IN  IF inGH /\ startsWithIdentityfile(toLowerCase(trimmed))
             THEN KeyEquals(second(splitWs(trimmed)), keyFile)
             ELSE IsActiveLoop(Tail(lines), inGH, keyFile)

isActiveIdentity(cfg, keyFile) ==
    IF ~cfg.exists THEN FALSE ELSE IsActiveLoop(cfg.lines, FALSE, keyFile)

----------------------------------------------------------------------------
(* setActiveGitHubIdentity *)

\* `    IdentityFile ${identityFile}`
IdentityLine(identityFile) == <<SP, SP, SP, SP, "IdentityFile", SP>> \o identityFile

HostGitHubLine == <<"Host", SP, "github.com">>

\* a flag that is true on the Host line only, not on the lines of its block
SetActiveInHost_NotKept(inGitHubHost, trimmed) ==
    /\ startsWithHostSp(toLowerCase(trimmed))
    /\ second(splitWs(trimmed)) = GitHub

\* inGitHubHost after the first if of the loop body
SetActiveInHost(inGitHubHost, trimmed) ==
    IF startsWithHostSp(toLowerCase(trimmed))
    THEN second(splitWs(trimmed)) = GitHub
    ELSE inGitHubHost

\* a test that rewrites the first IdentityFile line of any block
SetActiveMatches_AnyHost(inGH, trimmed) ==
    startsWithIdentityfile(toLowerCase(trimmed))

\* the second if of the loop body
SetActiveMatches(inGH, trimmed) ==
    inGH /\ startsWithIdentityfile(toLowerCase(trimmed))

\* the for loop: the lines after it and whether it found a line to rewrite
RECURSIVE SetActiveLoop(_, _, _, _)
SetActiveLoop(lines, i, inGitHubHost, identityFile) ==
    IF i > Len(lines) THEN [lines |-> lines, found |-> FALSE]
    ELSE LET trimmed == trim(lines[i])
             inGH == SetActiveInHost(inGitHubHost, trimmed)
         IN  IF SetActiveMatches(inGH, trimmed)
             THEN [lines |-> [lines EXCEPT ![i] = IdentityLine(identityFile)],
                   found |-> TRUE]
             ELSE SetActiveLoop(lines, i + 1, inGH, identityFile)

\* an append that does not look at found
SetActiveAppend_Always(r, identityFile) ==
    r.lines \o <<HostGitHubLine, IdentityLine(identityFile)>>

\* "If not found, add it"
SetActiveAppend(r, identityFile) ==
    IF r.found THEN r.lines
    ELSE r.lines \o <<HostGitHubLine, IdentityLine(identityFile)>>

setActiveGitHubIdentity(cfg, identityFile) ==
    IF ~cfg.exists THEN cfg
    ELSE [exists |-> TRUE,
          lines |-> SetActiveAppend(SetActiveLoop(cfg.lines, 1, FALSE, identityFile),
                                    identityFile),
          eol |-> "LF"]

----------------------------------------------------------------------------
(* Inputs *)

K1 == <<"~/.ssh/id_work">>
K2 == <<"~/.ssh/ID_WORK">>
K3 == <<"~/.ssh/id_home">>
KSpaced == <<"~/my", SP, "keys/id_rsa">>
Keys == {K1, K2, K3, KSpaced}

LineAlphabet ==
    { HostGitHubLine,
      <<SP, "host", SP, SP, "github.com", SP, "gitlab.com">>,
      <<"Host", SP, "gitlab.com">>,
      <<SP, SP, "IdentityFile", SP>> \o K1,
      <<"identityfile", SP, SP>> \o K3 \o <<SP>>,
      <<SP, "IdentityFile">>,
      <<SP, SP, "IdentitiesOnly", SP, "yes">>,
      <<SP, "HostName", SP, "github.com">>,
      <<>> }

NoFile == [exists |-> FALSE, lines |-> <<>>, eol |-> "LF"]

\* longer documents: two blocks with one directive each, and a block with two
ScenarioLines ==
    { <<HostGitHubLine, <<SP, SP, "IdentityFile", SP>> \o K1,
        <<"Host", SP, "gitlab.com">>, <<"identityfile", SP, SP>> \o K3 \o <<SP>>>>,
      <<HostGitHubLine, <<SP, SP, "IdentityFile", SP>> \o K1,
        <<SP, "host", SP, SP, "github.com", SP, "gitlab.com">>,
        <<"identityfile", SP, SP>> \o K3 \o <<SP>>>>,
      <<<<"Host", SP, "gitlab.com">>, HostGitHubLine,
        <<SP, SP, "IdentitiesOnly", SP, "yes">>,
        <<SP, SP, "IdentityFile", SP>> \o K1,
        <<"identityfile", SP, SP>> \o K3 \o <<SP>>>> }

ConfigFiles ==
    {NoFile} \cup
    { [exists |-> TRUE, lines |-> ls, eol |-> e] :
        ls \in ScenarioLines \cup UNION {[1..n -> LineAlphabet] : n \in 1..MaxLines},
        e \in {"LF", "CRLF"} }

NoStore == [exists |-> FALSE, corrupt |-> FALSE, data |-> <<>>]
NoGit == [exists |-> FALSE, hasUser |-> FALSE, name |-> "", email |-> ""]
NoCall == [op |-> "none", key |-> <<>>, result |-> FALSE, before |-> NoFile,
           again |-> FALSE]
NotSet == [set |-> FALSE, key |-> <<>>]

----------------------------------------------------------------------------
(* The configuration-file engine *)

Init ==
    /\ sshConfig \in ConfigFiles
    /\ connections = <<>>
    /\ store = NoStore
    /\ gitConfig = NoGit
    /\ lastSet = NotSet
    /\ call = NoCall

Parse ==
    /\ call' = [op |-> "scan", key |-> <<>>,
                result |-> parseGitHubSSHIdentities(sshConfig),
                before |-> sshConfig, again |-> FALSE]
    /\ UNCHANGED <<sshConfig, connections, store, gitConfig, lastSet>>

IsActive ==
    \E k \in Keys :
        /\ call' = [op |-> "isActive", key |-> k,
                    result |-> isActiveIdentity(sshConfig, k),
                    before |-> sshConfig, again |-> FALSE]
        /\ UNCHANGED <<sshConfig, connections, store, gitConfig, lastSet>>

SetActive ==
    \E k \in Keys :
        /\ sshConfig' = setActiveGitHubIdentity(sshConfig, k)
        /\ lastSet' = IF sshConfig.exists THEN [set |-> TRUE, key |-> k] ELSE lastSet
        /\ call' = [op |-> "setActive", key |-> k, result |-> FALSE,
                    before |-> sshConfig,
                    again |-> (call.op = "setActive" /\ call.key = k)]
        /\ UNCHANGED <<connections, store, gitConfig>>

Next == Parse \/ IsActive \/ SetActive

Spec == Init /\ [][Next]_vars

----------------------------------------------------------------------------
(* SSHConnectionProvider: the managed list and its store *)

\* JSON.parse(fs.readFileSync(configPath)), [] when the file is missing or the
\* parse throws
loadConnections(st) == IF st.exists /\ ~st.corrupt THEN st.data ELSE <<>>

\* fs.writeFileSync(configPath, JSON.stringify(connections)) in a try block: a
\* write that throws leaves the file as it was
saveConnections(conns, st, ok) ==
    IF ok THEN [exists |-> TRUE, corrupt |-> FALSE, data |-> conns] ELSE st

\* a refresh that fires the change event without reloading
refresh_NoReload(conns, st) == conns

\* refresh(): loadConnections() and fire the change event
refresh(conns, st) == loadConnections(st)

\* all.find(e => e.keyFile === c.keyFile)
HasKeyFile(all, keyFile) == \E i \in 1..Len(all) : all[i].keyFile = keyFile

RECURSIVE MergeLoop(_, _)
MergeLoop(all, configIdentities) ==
    IF configIdentities = <<>> THEN all
    ELSE MergeLoop(IF HasKeyFile(all, Head(configIdentities).keyFile)
                   THEN all
                   ELSE Append(all, Head(configIdentities)),
                   Tail(configIdentities))

\* getChildren() at the root
getChildren(conns, cfg) == MergeLoop(conns, parseGitHubSSHIdentities(cfg))

\* connections.findIndex(c => c.name === name), 0 for -1
findIndex(conns, name) ==
    LET hits == {i \in 1..Len(conns) : conns[i].name = name}
    IN  IF hits = {} THEN 0 ELSE CHOOSE i \in hits : \A j \in hits : i <= j

\* connections.splice(index, 1)
splice(conns, index) ==
    SubSeq(conns, 1, index - 1) \o SubSeq(conns, index + 1, Len(conns))

\* conn && conn.gitName && conn.gitEmail
HasAuthor(r) ==
    /\ "gitName" \in DOMAIN r /\ r.gitName # ""
    /\ "gitEmail" \in DOMAIN r /\ r.gitEmail # ""

updateGitConfigAuthor(git, name, email) ==
    IF ~git.exists THEN git
    ELSE [exists |-> TRUE, hasUser |-> TRUE, name |-> name, email |-> email]

\* the git config after provider.setActiveGitHubIdentity looked the key up
AuthorAfterSwitch(git, all, identityFile) ==
    LET hits == {i \in 1..Len(all) : all[i].keyFile = identityFile}
    IN  IF hits = {} THEN git
        ELSE LET conn == all[CHOOSE i \in hits : \A j \in hits : i <= j]
             IN  IF HasAuthor(conn)
                 THEN updateGitConfigAuthor(git, conn.gitName, conn.gitEmail)
                 ELSE git

Names == {<<"Work">>, <<"Personal">>}
ManagedKeys == {K1, K3}
EmailOf(name) == IF name = <<"Work">> THEN "ann@work.example" ELSE "ann@home.example"

\* the record SSHManager.addConnection and editConnection build
Managed(name, keyFile) ==
    [name |-> name, host |-> GitHub, user |-> "git", port |-> DefaultPort,
     keyFile |-> keyFile, gitName |-> "Ann", gitEmail |-> EmailOf(name)]

ProviderConfigFiles ==
    { NoFile,
      [exists |-> TRUE, lines |-> <<<<>>>>, eol |-> "LF"],
      [exists |-> TRUE, eol |-> "LF",
       lines |-> <<HostGitHubLine, <<SP, SP, "IdentityFile", SP>> \o K1>>],
      [exists |-> TRUE, eol |-> "CRLF",
       lines |-> <<HostGitHubLine, <<SP, SP, "IdentityFile", SP>> \o K1,
                   <<"identityfile", SP, SP>> \o K3 \o <<SP>>>>] }

InitialStores ==
    { NoStore,
      [exists |-> TRUE, corrupt |-> TRUE, data |-> <<>>],
      [exists |-> TRUE, corrupt |-> FALSE, data |-> <<>>],
      [exists |-> TRUE, corrupt |-> FALSE, data |-> <<Managed(<<"Work">>, K1)>>] }

InitialGitConfigs ==
    { NoGit, [exists |-> TRUE, hasUser |-> FALSE, name |-> "", email |-> ""] }

InitProvider ==
    /\ sshConfig \in ProviderConfigFiles
    /\ store \in InitialStores
    /\ connections = loadConnections(store)
    /\ gitConfig \in InitialGitConfigs
    /\ lastSet = NotSet
    /\ call = NoCall

Elements == getChildren(connections, sshConfig)

\* command ssh-manager.addConnection, all four prompts answered
AddConnection ==
    \E name \in Names, keyFile \in ManagedKeys, ok \in BOOLEAN :
        /\ Len(connections) < MaxConns
        /\ LET attempt == Append(connections, Managed(name, keyFile))
           IN  /\ store' = saveConnections(attempt, store, ok)
               /\ connections' = refresh(attempt, store')
               /\ call' = [op |-> "add", wrote |-> TRUE, ok |-> ok,
                           attempt |-> attempt, storeBefore |-> store]
        /\ UNCHANGED <<sshConfig, gitConfig, lastSet>>

\* command ssh-manager.editConnection on an element of the view
EditConnection ==
    \E n \in 1..Len(Elements), name \in Names, picked \in ManagedKeys \cup {Undefined},
       ok \in BOOLEAN :
        LET connection == Elements[n]
            index == findIndex(connections, connection.name)
            keyFile == IF picked = Undefined THEN connection.keyFile ELSE picked
            attempt == [connections EXCEPT ![index] = Managed(name, keyFile)]
        IN  /\ IF index = 0
               THEN /\ call' = [op |-> "edit", wrote |-> FALSE, ok |-> ok,
                                attempt |-> connections, storeBefore |-> store]
                    /\ UNCHANGED <<store, connections>>
               ELSE /\ store' = saveConnections(attempt, store, ok)
                    /\ connections' = refresh(attempt, store')
                    /\ call' = [op |-> "edit", wrote |-> TRUE, ok |-> ok,
                                attempt |-> attempt, storeBefore |-> store]
            /\ UNCHANGED <<sshConfig, gitConfig, lastSet>>

\* command ssh-manager.deleteConnection on an element of the view, confirmed
DeleteConnection ==
    \E n \in 1..Len(Elements), ok \in BOOLEAN :
        LET index == findIndex(connections, Elements[n].name)
            attempt == splice(connections, index)
        IN  /\ IF index = 0
               THEN /\ call' = [op |-> "delete", wrote |-> FALSE, ok |-> ok,
                                attempt |-> connections, storeBefore |-> store]
                    /\ UNCHANGED <<store, connections>>
               ELSE /\ store' = saveConnections(attempt, store, ok)
                    /\ connections' = refresh(attempt, store')
                    /\ call' = [op |-> "delete", wrote |-> TRUE, ok |-> ok,
                                attempt |-> attempt, storeBefore |-> store]
            /\ UNCHANGED <<sshConfig, gitConfig, lastSet>>

\* command ssh-manager.setActiveGitHubIdentity on an element of the view
SetActiveCommand ==
    \E n \in 1..Len(Elements) :
        LET identityFile == Elements[n].keyFile
            cfg == setActiveGitHubIdentity(sshConfig, identityFile)
            all == connections \o parseGitHubSSHIdentities(cfg)
        IN  /\ sshConfig' = cfg
            /\ gitConfig' = AuthorAfterSwitch(gitConfig, all, identityFile)
            /\ connections' = refresh(connections, store)
            /\ lastSet' = IF sshConfig.exists
                          THEN [set |-> TRUE, key |-> identityFile] ELSE lastSet
            /\ call' = [op |-> "setActiveCommand", key |-> identityFile,
                        before |-> sshConfig]
            /\ UNCHANGED store

\* the tree view asks for the root's children
GetChildren ==
    /\ call' = [op |-> "getChildren", result |-> getChildren(connections, sshConfig),
                managed |-> connections]
    /\ UNCHANGED <<sshConfig, connections, store, gitConfig, lastSet>>

NextProvider ==
    AddConnection \/ EditConnection \/ DeleteConnection \/ SetActiveCommand
        \/ GetChildren

SpecProvider == InitProvider /\ [][NextProvider]_vars

----------------------------------------------------------------------------
(* Block structure of a document, stated over the whole line sequence *)

Min(S) == CHOOSE x \in S : \A y \in S : x <= y
Max(S) == CHOOSE x \in S : \A y \in S : x >= y

IsHostLine(line) == startsWithHostSp(toLowerCase(trim(line)))
IsIdentityFileLine(line) == startsWithIdentityfile(toLowerCase(trim(line)))
FirstArg(line) == second(splitWs(trim(line)))

HostLines(lines) == {i \in 1..Len(lines) : IsHostLine(lines[i])}
GitHubHosts(lines) == {h \in HostLines(lines) : FirstArg(lines[h]) = GitHub}

\* the block of the Host line h runs to the line before the next Host line
BlockEnd(lines, h) ==
    LET later == {j \in HostLines(lines) : j > h}
    IN  IF later = {} THEN Len(lines) ELSE Min(later) - 1

\* the IdentityFile lines of the block of the Host line h
BlockIds(lines, h) ==
    {i \in (h + 1)..BlockEnd(lines, h) : IsIdentityFileLine(lines[i])}

\* the IdentityFile lines lying in any github-scoped block
GitHubIds(lines) == UNION {BlockIds(lines, h) : h \in GitHubHosts(lines)}

LastIdValue(lines, h) == FirstArg(lines[Max(BlockIds(lines, h))])

RECURSIVE Ascending(_)
Ascending(S) == IF S = {} THEN <<>> ELSE <<Min(S)>> \o Ascending(S \ {Min(S)})

WrittenLine(k) == <<SP, SP, SP, SP, "IdentityFile", SP>> \o k
WrittenHost == <<"Host", SP, "github.com">>

----------------------------------------------------------------------------
(* Claims about the configuration-file engine, checked under Spec *)

\* C1: setActive(k) called twice in a row leaves the document of the first call
\* unchanged: the second call appends no block and rewrites no line differently.
C1_Idempotent ==
    (call.op = "setActive" /\ call.again) => sshConfig = call.before

C1_Witness ==
    /\ call.op = "setActive" /\ call.again /\ sshConfig.exists
    /\ call.key = KSpaced
    /\ Len(sshConfig.lines) >= 3
    /\ sshConfig.lines[Len(sshConfig.lines) - 1] = WrittenHost
    /\ sshConfig.lines[Len(sshConfig.lines)] = WrittenLine(call.key)

\* C2: on an existing document setActive(k) either rewrites exactly one line, an
\* IdentityFile line inside a github-scoped block, or appends exactly the two
\* lines `Host github.com` and `    IdentityFile k`; every other line is kept.
C2_Preservation ==
    (call.op = "setActive" /\ call.before.exists) =>
        LET old == call.before.lines
            new == sshConfig.lines
        IN  \/ /\ Len(new) = Len(old)
               /\ \E i \in GitHubIds(old) :
                      /\ new[i] = WrittenLine(call.key)
                      /\ \A j \in (1..Len(old)) \ {i} : new[j] = old[j]
            \/ new = old \o <<WrittenHost, WrittenLine(call.key)>>

C2_Witness ==
    /\ call.op = "setActive" /\ call.key = K2
    /\ call.before.lines =
           <<WrittenHost, <<SP, SP, "IdentityFile", SP>> \o K1,
             <<"Host", SP, "gitlab.com">>, <<"identityfile", SP, SP>> \o K3 \o <<SP>>>>
    /\ sshConfig.lines[2] = WrittenLine(K2)
    /\ sshConfig.lines[4] = <<"identityfile", SP, SP>> \o K3 \o <<SP>>

\* C4: isActive(k) right after setActive(k) returns true, provided k was written
\* into the first github-scoped block's first IdentityFile line.
C4_ActiveAfterSet ==
    (/\ call.op = "isActive" /\ lastSet.set /\ lastSet.key = call.key
     /\ GitHubHosts(sshConfig.lines) # {}
     /\ BlockIds(sshConfig.lines, Min(GitHubHosts(sshConfig.lines))) # {}
     /\ sshConfig.lines[Min(BlockIds(sshConfig.lines,
                                     Min(GitHubHosts(sshConfig.lines))))]
            = WrittenLine(call.key))
    => call.result = TRUE

\* C5: with no configuration file scan returns the empty sequence and isActive
\* returns false, neither creating the file, and setActive(k) creates it with a
\* `Host github.com` block whose IdentityFile is k.
C5_LazyCreation ==
    /\ (call.op = "scan" /\ ~call.before.exists)
           => (call.result = <<>> /\ ~sshConfig.exists)
    /\ (call.op = "isActive" /\ ~call.before.exists)
           => (call.result = FALSE /\ ~sshConfig.exists)
    /\ (call.op = "setActive" /\ ~call.before.exists)
           => /\ sshConfig.exists
              /\ \E h \in GitHubHosts(sshConfig.lines) :
                     \E i \in BlockIds(sshConfig.lines, h) :
                         sshConfig.lines[i] = WrittenLine(call.key)

\* C6 (as stated): scan returns, in file order, exactly one record for each
\* github-scoped block holding at least one IdentityFile line, its keyFile the
\* last IdentityFile value of the block.
C6_ScanEveryBlockWithIdentityFile ==
    call.op = "scan" =>
        LET lines == sshConfig.lines
            hs == Ascending({h \in GitHubHosts(lines) : BlockIds(lines, h) # {}})
        IN  /\ Len(call.result) = Len(hs)
            /\ \A n \in 1..Len(hs) :
                   call.result[n].keyFile = LastIdValue(lines, hs[n])

\* C6 (amended): scan returns, in file order, exactly one record for each
\* github-scoped block whose last IdentityFile line carries a value, its keyFile
\* that value and its name the base name of it; the final block of the document
\* is included, and no other block yields a record.
C6_ScanCompleteness ==
    call.op = "scan" =>
        LET lines == sshConfig.lines
            hs == Ascending({h \in GitHubHosts(lines) :
                                /\ BlockIds(lines, h) # {}
                                /\ LastIdValue(lines, h) # Undefined})
        IN  /\ Len(call.result) = Len(hs)
            /\ \A n \in 1..Len(hs) :
                   /\ call.result[n].keyFile = LastIdValue(lines, hs[n])
                   /\ call.result[n].name = basename(LastIdValue(lines, hs[n]))
                   /\ call.result[n].host = GitHub

C6_Witness ==
    /\ call.op = "scan" /\ Len(call.result) = 2
    /\ LET lines == sshConfig.lines
           h == Max(GitHubHosts(lines))
       IN  /\ BlockEnd(lines, h) = Len(lines)
           /\ call.result[2].keyFile = LastIdValue(lines, h)

\* C7 (as stated): on a document that already holds a github-scoped Host block,
\* with or without an IdentityFile line in it, setActive leaves the number of
\* `Host github.com` lines unchanged.
C7_NeverAddsBlock ==
    (/\ call.op = "setActive" /\ call.before.exists
     /\ GitHubHosts(call.before.lines) # {})
    => Cardinality(GitHubHosts(sshConfig.lines))
           = Cardinality(GitHubHosts(call.before.lines))

\* C7 (amended): on a document in which some github-scoped block holds an
\* IdentityFile line, setActive leaves the number of `Host github.com` lines
\* unchanged; on a document whose github-scoped blocks hold none, it adds one.
C7_NoDuplicateBlock ==
    (call.op = "setActive" /\ call.before.exists) =>
        Cardinality(GitHubHosts(sshConfig.lines)) =
            IF GitHubIds(call.before.lines) # {}
            THEN Cardinality(GitHubHosts(call.before.lines))
            ELSE Cardinality(GitHubHosts(call.before.lines)) + 1

C7_Witness ==
    /\ call.op = "setActive" /\ call.before.exists
    /\ GitHubIds(call.before.lines) # {}
    /\ Cardinality(GitHubHosts(call.before.lines)) = 2
    /\ sshConfig # call.before

\* C8 (as stated): isActive(k) is true only if the first IdentityFile line of
\* the first github-scoped block has the value k, and false when the file is
\* missing, no github-scoped block exists, or that first block has no
\* IdentityFile line.
C8_FirstBlockOnly ==
    call.op = "isActive" =>
        LET lines == sshConfig.lines
            none == \/ ~sshConfig.exists
                    \/ GitHubHosts(lines) = {}
                    \/ BlockIds(lines, Min(GitHubHosts(lines))) = {}
        IN  /\ none => call.result = FALSE
            /\ call.result = TRUE =>
                   /\ ~none
                   /\ FirstArg(lines[Min(BlockIds(lines, Min(GitHubHosts(lines))))])
                          = call.key

\* C8 (amended): isActive(k) is true exactly when the first IdentityFile line
\* lying in any github-scoped block has the value k, compared as written; it is
\* false when the file is missing or no github-scoped block holds such a line.
C8_FirstGitHubIdentity ==
    call.op = "isActive" =>
        LET lines == sshConfig.lines
        IN  call.result = (/\ sshConfig.exists
                           /\ GitHubIds(lines) # {}
                           /\ FirstArg(lines[Min(GitHubIds(lines))]) = call.key)

C8_Witness ==
    /\ call.op = "isActive" /\ call.result = TRUE
    /\ BlockIds(sshConfig.lines, Min(GitHubHosts(sshConfig.lines))) = {}

\* C10: after setActive(k) on an existing document, k a single non-empty word,
\* scan returns a record whose keyFile is k (stated for the documents in which
\* every IdentityFile line carries a value).
C10_ActiveIsListed ==
    (/\ call.op = "scan" /\ lastSet.set /\ lastSet.key \in {K1, K2, K3}
     /\ \A i \in 1..Len(sshConfig.lines) :
            IsIdentityFileLine(sshConfig.lines[i])
                => FirstArg(sshConfig.lines[i]) # Undefined)
    => \E n \in 1..Len(call.result) : call.result[n].keyFile = lastSet.key

----------------------------------------------------------------------------
(* Claims about the provider, checked under SpecProvider *)

\* C3: the merged view holds no two records with equal keyFile, and for a
\* keyFile both managed and scanned the record shown is the managed one.
C3_DedupMergedView ==
    call.op = "getChildren" =>
        /\ \A i, j \in 1..Len(call.result) :
               i # j => call.result[i].keyFile # call.result[j].keyFile
        /\ \A i \in 1..Len(call.result) :
               HasKeyFile(call.managed, call.result[i].keyFile)
                   => "gitName" \in DOMAIN call.result[i]

\* C9 (as stated): after an add, update or delete whose write of the store
\* failed, the in-memory list still holds the attempted mutation.
C9_MemoryKeepsAttempt ==
    (call.op \in {"add", "edit", "delete"} /\ call.wrote /\ ~call.ok)
    => connections = call.attempt

\* C9 (amended): after an add, update or delete whose write of the store failed,
\* the store keeps its old contents and the in-memory list is what the store
\* holds (empty for a missing or unparsable store): the refresh that ends the
\* operation reloads it, so the attempted mutation is not kept in memory.
C9_MemoryReloadedFromStore ==
    (call.op \in {"add", "edit", "delete"} /\ call.wrote /\ ~call.ok)
    => /\ store = call.storeBefore
       /\ connections = IF store.exists /\ ~store.corrupt THEN store.data ELSE <<>>

C9_Witness ==
    /\ call.op = "add" /\ call.wrote /\ ~call.ok
    /\ Len(call.attempt) = 2
    /\ Len(connections) = 1
    /\ store.exists /\ connections = store.data

====
